---- MODULE Spec2Model ----
(***************************************************************************)
(* Model of script.py: Lagrange interpolation at x = 0 (the "secret" of a  *)
(* Shamir-style point set) in CPython arithmetic, and the script around it.*)
(*                                                                         *)
(* CPython numbers are modelled by value:                                  *)
(*   - an int is a sign and a magnitude of unbounded size, kept as a       *)
(*     little-endian sequence of base-2^15 limbs (CPython's 15-bit digits); *)
(*   - a float is an IEEE-754 binary64 value s * m * 2^e with m < 2^53,    *)
(*     kept with m odd (or zero), every operation rounding the exact       *)
(*     result to 53 bits, ties to even.                                    *)
(* The exponent range of binary64 is never left by the inputs of this      *)
(* model, so overflow, subnormals, infinities and NaN do not occur; the    *)
(* sign of a zero is not kept (0.0 == -0.0 in every comparison made).      *)
(***************************************************************************)
EXTENDS Integers, Sequences, FiniteSets, TLC

VARIABLES
    pc,              \* where the running module is: "S<line>" in the script,
                     \* "idle" / "called" in a caller of the function
    test1_points,    \* the script's globals (a name not yet bound: <<>> / Unbound)
    test1_selected,
    test1_alt,
    secret1,
    secret1_alt,
    out,             \* what has been printed, one entry per print call
    points,          \* a caller's point list
    results,         \* how that caller's calls ended, in order
    frame            \* the call of lagrange_constant_term in progress

vars == <<pc, test1_points, test1_selected, test1_alt, secret1, secret1_alt,
          out, points, results, frame>>

(* ---------------- unbounded naturals: limbs, base 2^15 ---------------- *)

Base == 2^15

RECURSIVE Pow2(_)
Pow2(k) == IF k = 0 THEN 1 ELSE 2 * Pow2(k - 1)

Abs(a) == IF a < 0 THEN -a ELSE a

Sgn(a) == IF a < 0 THEN -1 ELSE 1

RECURSIVE Norm(_)
Norm(a) == IF a = <<>> THEN <<>>
           ELSE IF a[Len(a)] = 0 THEN Norm(SubSeq(a, 1, Len(a) - 1))
           ELSE a

RECURSIVE FromNat(_)
FromNat(k) == IF k = 0 THEN <<>> ELSE <<k % Base>> \o FromNat(k \div Base)

RECURSIVE AddC(_, _, _)
AddC(a, b, c) ==
    IF a = <<>> /\ b = <<>> THEN (IF c = 0 THEN <<>> ELSE <<c>>)
    ELSE LET x == IF a = <<>> THEN 0 ELSE Head(a)
             y == IF b = <<>> THEN 0 ELSE Head(b)
             t == x + y + c
         IN  <<t % Base>> \o AddC(IF a = <<>> THEN <<>> ELSE Tail(a),
                                  IF b = <<>> THEN <<>> ELSE Tail(b),
                                  t \div Base)

BAdd(a, b) == AddC(a, b, 0)

\* a - b - c for a >= b + c
RECURSIVE SubC(_, _, _)
SubC(a, b, c) ==
    IF a = <<>> THEN <<>>
    ELSE LET y == IF b = <<>> THEN 0 ELSE Head(b)
             t == Head(a) - y - c
         IN  <<t % Base>> \o SubC(Tail(a),
                                  IF b = <<>> THEN <<>> ELSE Tail(b),
                                  IF t < 0 THEN 1 ELSE 0)

BSub(a, b) == Norm(SubC(a, b, 0))

\* -1, 0, 1 as a < b, a = b, a > b (a, b normalised)
RECURSIVE CmpTop(_, _, _)
CmpTop(a, b, k) ==
    IF k = 0 THEN 0
    ELSE IF a[k] < b[k] THEN -1
    ELSE IF a[k] > b[k] THEN 1
    ELSE CmpTop(a, b, k - 1)

BCmp(a, b) ==
    IF Len(a) < Len(b) THEN -1
    ELSE IF Len(a) > Len(b) THEN 1
    ELSE CmpTop(a, b, Len(a))

\* a * m + c for a limb m
RECURSIVE MulSmallC(_, _, _)
MulSmallC(a, m, c) ==
    IF a = <<>> THEN (IF c = 0 THEN <<>> ELSE <<c>>)
    ELSE LET t == Head(a) * m + c
         IN  <<t % Base>> \o MulSmallC(Tail(a), m, t \div Base)

BMulSmall(a, m) == Norm(MulSmallC(a, m, 0))

RECURSIVE BMul(_, _)
BMul(a, b) ==
    IF a = <<>> \/ b = <<>> THEN <<>>
    ELSE BAdd(BMulSmall(a, Head(b)),
              LET r == BMul(a, Tail(b)) IN IF r = <<>> THEN <<>> ELSE <<0>> \o r)

\* division by 0 < d <= Base, from the top limb down: [q, r]
RECURSIVE DivSmallTop(_, _, _, _)
DivSmallTop(a, d, k, r) ==
    IF k = 0 THEN [q |-> <<>>, r |-> r]
    ELSE LET t    == r * Base + a[k]
             rest == DivSmallTop(a, d, k - 1, t % d)
         IN  [q |-> rest.q \o <<t \div d>>, r |-> rest.r]

BDivSmall(a, d) ==
    LET res == DivSmallTop(a, d, Len(a), 0)
    IN  [q |-> Norm(res.q), r |-> res.r]

RECURSIVE Zeros(_)
Zeros(k) == IF k = 0 THEN <<>> ELSE <<0>> \o Zeros(k - 1)

\* a * 2^k
BShl(a, k) ==
    IF a = <<>> THEN <<>>
    ELSE Zeros(k \div 15) \o BMulSmall(a, Pow2(k % 15))

\* floor(a / 2^k)
BShr(a, k) ==
    IF Len(a) <= k \div 15 THEN <<>>
    ELSE BDivSmall(SubSeq(a, k \div 15 + 1, Len(a)), Pow2(k % 15)).q

RECURSIVE BitLenSmall(_)
BitLenSmall(k) == IF k = 0 THEN 0 ELSE 1 + BitLenSmall(k \div 2)

BitLen(a) ==
    IF a = <<>> THEN 0 ELSE 15 * (Len(a) - 1) + BitLenSmall(a[Len(a)])

(* ---------------------- CPython int (arbitrary size) ------------------- *)

\* the int k, for a k of small magnitude
PyInt(k) == [s |-> Sgn(k), m |-> FromNat(Abs(k))]

(* ------------------------ binary64 floats ------------------------------ *)

Zero == [s |-> 1, m |-> <<>>, e |-> 0]

\* the value s * m * 2^e with m made odd
RECURSIVE Canon(_, _, _)
Canon(s, m, e) ==
    IF m = <<>> THEN Zero
    ELSE IF Head(m) = 0 THEN Canon(s, Tail(m), e + 15)
    ELSE IF Head(m) % 2 = 0 THEN Canon(s, BShr(m, 1), e + 1)
    ELSE [s |-> s, m |-> m, e |-> e]

\* s * m * 2^e rounded to a 53-bit significand, ties to even
Round53(s, m, e) ==
    IF BitLen(m) <= 53 THEN Canon(s, m, e)
    ELSE LET sh   == BitLen(m) - 53
             q    == BShr(m, sh)
             r    == BSub(m, BShl(q, sh))
             c    == BCmp(r, BShl(<<1>>, sh - 1))
             up   == c > 0 \/ (c = 0 /\ q[1] % 2 = 1)
         IN  Canon(s, IF up THEN BAdd(q, <<1>>) ELSE q, e + sh)

\* float(k) for an int k (PyLong_AsDouble)
IntToFloat(k) == Round53(k.s, k.m, 0)

FNeg(a) == IF a.m = <<>> THEN a ELSE [a EXCEPT !.s = -a.s]

FAbs(a) == [a EXCEPT !.s = 1]

\* a + b: the exact sum, rounded once
FAdd(a, b) ==
    LET e  == IF a.e < b.e THEN a.e ELSE b.e
        ma == BShl(a.m, a.e - e)
        mb == BShl(b.m, b.e - e)
        c  == BCmp(ma, mb)
    IN  IF a.s = b.s THEN Round53(a.s, BAdd(ma, mb), e)
        ELSE IF c = 0 THEN Zero
        ELSE IF c > 0 THEN Round53(a.s, BSub(ma, mb), e)
        ELSE Round53(b.s, BSub(mb, ma), e)

FSub(a, b) == FAdd(a, FNeg(b))

\* a * b: the exact product, rounded once
FMul(a, b) == Round53(a.s * b.s, BMul(a.m, b.m), a.e + b.e)

\* a < b
FLt(a, b) ==
    LET e  == IF a.e < b.e THEN a.e ELSE b.e
        c  == BCmp(BShl(a.m, a.e - e), BShl(b.m, b.e - e))
    IN  IF a.s # b.s THEN a.s < b.s
        ELSE IF a.s = 1 THEN c < 0 ELSE c > 0

\* a / b for ints a, b # 0 (long_true_divide): the exact quotient, rounded
\* once; 72 quotient bits and a sticky bit decide the rounding
IntTrueDiv(a, b) ==
    LET d == BDivSmall(BShl(FromNat(Abs(a)), 72), Abs(b))
    IN  Round53(Sgn(a) * Sgn(b),
                BAdd(BShl(d.q, 1), IF d.r = 0 THEN <<>> ELSE <<1>>),
                -73)

\* floor(a / 10^k) and whether anything was cut off
RECURSIVE DivPow10(_, _, _)
DivPow10(a, k, sticky) ==
    IF k = 0 THEN [q |-> a, sticky |-> sticky]
    ELSE LET d == BDivSmall(a, 10)
         IN  DivPow10(d.q, k - 1, sticky \/ d.r # 0)

\* the float literal <d>e-<k> (d a decimal digit string's value, k >= 0)
Literal(d, k) ==
    LET q == DivPow10(BShl(FromNat(d), 120), k, FALSE)
    IN  Round53(1, BAdd(BShl(q.q, 1), IF q.sticky THEN <<1>> ELSE <<>>), -121)

(* --------------------- lagrange_constant_term -------------------------- *)
(* A call is a frame: the statement about to run (pc, "L<source line>"), the  *)
(* list the caller passed (points, shared with the caller), the locals and,*)
(* once the call is over, how it ended (result).  A point is [x, y], x an  *)
(* int small enough to be kept as Int, y an int of any size.  A loop       *)
(* variable not yet bound by its range(n) iterator is -1.                  *)

NoResult == [kind |-> "none"]

NewFrame(pts) ==
    [pc |-> "L14", points |-> pts, secret |-> Zero, n |-> 0,
     i |-> -1, xi |-> 0, yi |-> PyInt(0), li_0 |-> Zero,
     j |-> -1, xj |-> 0, result |-> NoResult]

\* mutant: the sum starts at 1.0
Line14_StartsAtOne(f) == [f EXCEPT !.secret = Literal(10, 1), !.pc = "L15"]

\* secret = 0.0
Line14(f) == [f EXCEPT !.secret = Literal(0, 0), !.pc = "L15"]

\* mutant: points.sort() before the length is taken
Line15_SortsInPlace(f) ==
    LET n  == Len(f.points)
        pi == CHOOSE q \in Permutations(1 .. n) :
                \A a, b \in 1 .. n : a < b => f.points[q[a]].x <= f.points[q[b]].x
    IN  [f EXCEPT !.points = [k \in 1 .. n |-> f.points[pi[k]]], !.n = n, !.pc = "L17"]

\* n = len(points)
Line15(f) == [f EXCEPT !.n = Len(f.points), !.pc = "L17"]

\* mutant: for i in range(n - 1)
Line17_SkipsLast(f) ==
    IF f.i + 1 < f.n - 1 THEN [f EXCEPT !.i = f.i + 1, !.pc = "L18"]
    ELSE [f EXCEPT !.pc = "L29"]

\* for i in range(n):
Line17(f) ==
    IF f.i + 1 < f.n THEN [f EXCEPT !.i = f.i + 1, !.pc = "L18"]
    ELSE [f EXCEPT !.pc = "L29"]

\* xi, yi = points[i]
Line18(f) ==
    [f EXCEPT !.xi = f.points[f.i + 1].x, !.yi = f.points[f.i + 1].y, !.pc = "L21"]

\* mutant: li_0 = 1.0 is done once, before the outer loop
Line21_NoReset(f) ==
    [f EXCEPT !.li_0 = IF f.i = 0 THEN Literal(10, 1) ELSE f.li_0, !.j = -1, !.pc = "L22"]

\* li_0 = 1.0, and the inner range(n) is created
Line21(f) == [f EXCEPT !.li_0 = Literal(10, 1), !.j = -1, !.pc = "L22"]

\* for j in range(n):
Line22(f) ==
    IF f.j + 1 < f.n THEN [f EXCEPT !.j = f.j + 1, !.pc = "L23"]
    ELSE [f EXCEPT !.pc = "L27"]

\* mutant: the test i != j is left out
Line23_NoTest(f) == [f EXCEPT !.pc = "L24"]

\* if i != j:
Line23(f) == IF f.i # f.j THEN [f EXCEPT !.pc = "L24"] ELSE [f EXCEPT !.pc = "L22"]

\* xj, _ = points[j]
Line24(f) == [f EXCEPT !.xj = f.points[f.j + 1].x, !.pc = "L25"]

\* mutant: li_0 *= (0 - xi) / (xi - xj)
Line25_WrongNumerator(f) ==
    IF f.xi - f.xj = 0
    THEN [f EXCEPT !.pc = "raised", !.result = [kind |-> "ZeroDivisionError"]]
    ELSE [f EXCEPT !.li_0 = FMul(f.li_0, IntTrueDiv(0 - f.xi, f.xi - f.xj)),
                   !.pc = "L22"]

\* mutant: a factor with xi == xj is skipped
Line25_SkipsEqual(f) ==
    IF f.xi - f.xj = 0
    THEN [f EXCEPT !.pc = "L22"]
    ELSE [f EXCEPT !.li_0 = FMul(f.li_0, IntTrueDiv(0 - f.xj, f.xi - f.xj)),
                   !.pc = "L22"]

\* li_0 *= (0 - xj) / (xi - xj)
Line25(f) ==
    IF f.xi - f.xj = 0
    THEN [f EXCEPT !.pc = "raised", !.result = [kind |-> "ZeroDivisionError"]]
    ELSE [f EXCEPT !.li_0 = FMul(f.li_0, IntTrueDiv(0 - f.xj, f.xi - f.xj)),
                   !.pc = "L22"]

\* mutant: secret = yi * li_0
Line27_Overwrites(f) ==
    [f EXCEPT !.secret = FMul(IntToFloat(f.yi), f.li_0), !.pc = "L17"]

\* secret += yi * li_0
Line27(f) ==
    [f EXCEPT !.secret = FAdd(f.secret, FMul(IntToFloat(f.yi), f.li_0)),
              !.pc = "L17"]

\* return secret
Line29(f) ==
    [f EXCEPT !.pc = "returned", !.result = [kind |-> "float", val |-> f.secret]]

Over(f) == f.pc \in {"returned", "raised"}

StepFrame(f) ==
    CASE f.pc = "L14" -> Line14(f)
      [] f.pc = "L15" -> Line15(f)
      [] f.pc = "L17" -> Line17(f)
      [] f.pc = "L18" -> Line18(f)
      [] f.pc = "L21" -> Line21(f)
      [] f.pc = "L22" -> Line22(f)
      [] f.pc = "L23" -> Line23(f)
      [] f.pc = "L24" -> Line24(f)
      [] f.pc = "L25" -> Line25(f)
      [] f.pc = "L27" -> Line27(f)
      [] f.pc = "L29" -> Line29(f)

\* the frame when the call is over
RECURSIVE RunFrame(_)
RunFrame(f) == IF Over(f) THEN f ELSE RunFrame(StepFrame(f))

lagrange_constant_term(pts) == RunFrame(NewFrame(pts))

(* ------------------------- a caller of the function -------------------- *)

\* the script takes k = 3 of its points; callers pass up to k points
K == 3

\* bounds of the callers' inputs
MaxX == 4

MaxCoef == 1

MaxCalls == 2

Xs == 0 .. MaxX

Coefs == -1 .. MaxCoef

\* c[1] + c[2] x + c[3] x^2 + ...
RECURSIVE Eval(_, _)
Eval(c, x) == IF Len(c) = 0 THEN 0 ELSE Head(c) + x * Eval(Tail(c), x)

DistinctSeqs(n) ==
    {xs \in [1 .. n -> Xs] : \A a, b \in 1 .. n : a # b => xs[a] # xs[b]}

\* the points of the polynomial c at xs, in the order of xs
Sample(c, xs) == [k \in 1 .. Len(xs) |-> [x |-> xs[k], y |-> PyInt(Eval(c, xs[k]))]]

\* n points of a polynomial of degree at most n - 1
PolySamples ==
    UNION {{Sample(c, xs) : c \in [1 .. n -> Coefs], xs \in DistinctSeqs(n)} :
           n \in 1 .. K}

\* two or more points, some x-value used twice
DupInputs ==
    UNION {{[k \in 1 .. n |-> [x |-> xs[k], y |-> PyInt(k)]] :
            xs \in [1 .. n -> Xs] \ DistinctSeqs(n)} : n \in 2 .. K}

\* 2^53 + 1, the least positive int that is no float
BigY == [s |-> 1, m |-> BAdd(BShl(<<1>>, 53), <<1>>)]

BigInputs ==
    {<<[x |-> x, y |-> BigY]>> : x \in Xs}
    \cup {<<[x |-> 0, y |-> BigY], [x |-> 1, y |-> PyInt(1)]>>,
          <<[x |-> 1, y |-> PyInt(1)], [x |-> 0, y |-> BigY]>>}

Pt(x, y) == [x |-> x, y |-> PyInt(y)]

\* [(1, 4), (2, 7), (3, 12), (6, 39)]
Test1Points == <<Pt(1, 4), Pt(2, 7), Pt(3, 12), Pt(6, 39)>>

\* test1_points[:3]
Test1Selected == SubSeq(Test1Points, 1, IF K < Len(Test1Points) THEN K ELSE Len(Test1Points))

\* [test1_points[0], test1_points[1], test1_points[3]]
Test1Alt == <<Test1Points[1], Test1Points[2], Test1Points[4]>>

Inputs ==
    {<<>>} \cup PolySamples \cup DupInputs \cup BigInputs
    \cup {Test1Selected, Test1Alt}

NoFrame == [pc |-> "none"]

Unbound == [kind |-> "unbound"]

ScriptVars == <<test1_points, test1_selected, test1_alt, secret1, secret1_alt, out>>

CallerVars == <<points, results>>

Init ==
    /\ pc = "idle"
    /\ points \in Inputs
    /\ results = <<>>
    /\ frame = NoFrame
    /\ test1_points = <<>> /\ test1_selected = <<>> /\ test1_alt = <<>>
    /\ secret1 = Unbound /\ secret1_alt = Unbound
    /\ out = <<>>

\* result = lagrange_constant_term(points): the call is entered
Enter ==
    /\ pc = "idle"
    /\ results = <<>>
    /\ frame' = NewFrame(points)
    /\ pc' = "called"
    /\ UNCHANGED <<ScriptVars, CallerVars>>

\* the caller calls again, with the same list
Reenter ==
    /\ pc = "idle"
    /\ Len(results) >= 1
    /\ Len(results) < MaxCalls
    /\ frame' = NewFrame(points)
    /\ pc' = "called"
    /\ UNCHANGED <<ScriptVars, CallerVars>>

\* one statement of the function; the list it was passed is the caller's
Step ==
    /\ frame.pc \notin {"none", "returned", "raised"}
    /\ frame' = StepFrame(frame)
    /\ points' = IF pc = "called" THEN frame'.points ELSE points
    /\ test1_selected' = IF pc = "S31c" THEN frame'.points ELSE test1_selected
    /\ test1_alt' = IF pc = "S37c" THEN frame'.points ELSE test1_alt
    /\ UNCHANGED <<pc, test1_points, secret1, secret1_alt, out, results>>

\* the call is over: the caller has the float or the exception
Leave ==
    /\ pc = "called"
    /\ Over(frame)
    /\ results' = Append(results, frame.result)
    /\ frame' = NoFrame
    /\ pc' = "idle"
    /\ UNCHANGED <<ScriptVars, points>>

Next == Enter \/ Step \/ Leave

Spec == Init /\ [][Next]_vars

\* a caller that calls up to MaxCalls times
RepeatNext == Enter \/ Reenter \/ Step \/ Leave

RepeatSpec == Init /\ [][RepeatNext]_vars

(* ------------------------------ the script ----------------------------- *)
(* One action per statement, named by its line.  A print call appends one  *)
(* entry to out: the text as written in the source and the values of the   *)
(* expressions it formats.                                                 *)

ScriptInit ==
    /\ pc = "S4"
    /\ test1_points = <<>> /\ test1_selected = <<>> /\ test1_alt = <<>>
    /\ secret1 = Unbound /\ secret1_alt = Unbound
    /\ out = <<>>
    /\ points = <<>>
    /\ results = <<>>
    /\ frame = NoFrame

Emit(at, to, entry) ==
    /\ pc = at
    /\ out' = Append(out, entry)
    /\ pc' = to
    /\ UNCHANGED <<test1_points, test1_selected, test1_alt, secret1,
                   secret1_alt, CallerVars, frame>>

S4 == Emit("S4", "S5", <<"=== TEST CASE 1 VERIFICATION ===">>)

S5 ==
    /\ pc = "S5"
    /\ test1_points' = Test1Points
    /\ pc' = "S6"
    /\ UNCHANGED <<test1_selected, test1_alt, secret1, secret1_alt, out,
                   CallerVars, frame>>

S6 == Emit("S6", "S9", <<"Decoded points: {test1_points}", test1_points>>)

\* test1_selected = test1_points[:3], a new list
S9 ==
    /\ pc = "S9"
    /\ test1_selected' =
          SubSeq(test1_points, 1, IF K < Len(test1_points) THEN K ELSE Len(test1_points))
    /\ pc' = "S10"
    /\ UNCHANGED <<test1_points, test1_alt, secret1, secret1_alt, out,
                   CallerVars, frame>>

S10 == Emit("S10", "S12",
             <<"Selected points for interpolation: {test1_selected}", test1_selected>>)

\* def lagrange_constant_term(points): binds the name, runs nothing
S12 == pc = "S12" /\ pc' = "S31" /\ UNCHANGED <<ScriptVars, CallerVars, frame>>

\* secret1 = lagrange_constant_term(test1_selected): the call ...
S31 ==
    /\ pc = "S31"
    /\ frame' = NewFrame(test1_selected)
    /\ pc' = "S31c"
    /\ UNCHANGED <<ScriptVars, CallerVars>>

\* ... and the assignment of what it returned; an exception ends the script
S31r ==
    /\ pc = "S31c"
    /\ Over(frame)
    /\ IF frame.pc = "returned"
       THEN secret1' = frame.result.val /\ pc' = "S32"
       ELSE secret1' = secret1 /\ pc' = "crashed"
    /\ frame' = NoFrame
    /\ UNCHANGED <<test1_points, test1_selected, test1_alt, secret1_alt, out,
                   CallerVars>>

S32 == Emit("S32", "S35", <<"Calculated secret: {secret1}", secret1>>)

\* test1_alt = [test1_points[0], test1_points[1], test1_points[3]]
S35 ==
    /\ pc = "S35"
    /\ test1_alt' = <<test1_points[1], test1_points[2], test1_points[4]>>
    /\ pc' = "S36"
    /\ UNCHANGED <<test1_points, test1_selected, secret1, secret1_alt, out,
                   CallerVars, frame>>

S36 == Emit("S36", "S37", <<"\nAlternative point selection: {test1_alt}", test1_alt>>)

S37 ==
    /\ pc = "S37"
    /\ frame' = NewFrame(test1_alt)
    /\ pc' = "S37c"
    /\ UNCHANGED <<ScriptVars, CallerVars>>

S37r ==
    /\ pc = "S37c"
    /\ Over(frame)
    /\ IF frame.pc = "returned"
       THEN secret1_alt' = frame.result.val /\ pc' = "S38"
       ELSE secret1_alt' = secret1_alt /\ pc' = "crashed"
    /\ frame' = NoFrame
    /\ UNCHANGED <<test1_points, test1_selected, test1_alt, secret1, out,
                   CallerVars>>

S38 == Emit("S38", "S40", <<"Alternative calculation secret: {secret1_alt}", secret1_alt>>)

\* abs(secret1 - secret1_alt) < 1e-10
Match(a, b) == FLt(FAbs(FSub(a, b)), Literal(1, 10))

S40 == Emit("S40", "S57",
             <<"\nBoth calculations match: {}", Match(secret1, secret1_alt)>>)

S57 == Emit("S57", "S58", <<"\nManual polynomial construction:">>)

S58 == Emit("S58", "S59", <<"If polynomial is x^2 + 0x + 3 = x^2 + 3">>)

S59 == Emit("S59", "S60", <<"Check: f(1) = 1^2 + 3 = {}", 1^2 + 3>>)

S60 == Emit("S60", "S61", <<"Check: f(2) = 2^2 + 3 = {}", 2^2 + 3>>)

S61 == Emit("S61", "S62", <<"Check: f(3) = 3^2 + 3 = {}", 3^2 + 3>>)

S62 == Emit("S62", "S63", <<"Check: f(6) = 6^2 + 3 = {}", 6^2 + 3>>)

S63 == Emit("S63", "S65",
             <<"The constant term c = 3, which matches our calculation!">>)

\* print("\n" + "="*50)
S65 == Emit("S65", "S66", <<"\n", "=", 50>>)

\* mutant: the banner depends on the comparison, the wrong way round
S66_Conditional ==
    /\ pc = "S66"
    /\ IF Match(secret1, secret1_alt)
       THEN Emit("S66", "S67", <<"TEST CASE 1 VERIFICATION FAILED">>)
       ELSE Emit("S66", "S67", <<"TEST CASE 1 VERIFICATION PASSED">>)

S66 == Emit("S66", "S67", <<"TEST CASE 1 VERIFICATION PASSED">>)

S67 == Emit("S67", "S68", <<"Secret = 3 (matches expected result)">>)

\* print("="*50), the last statement
S68 == Emit("S68", "done", <<"=", 50>>)

ScriptNext ==
    \/ S4 \/ S5 \/ S6 \/ S9 \/ S10 \/ S12
    \/ S31 \/ Step \/ S31r \/ S32
    \/ S35 \/ S36 \/ S37 \/ S37r \/ S38 \/ S40
    \/ S57 \/ S58 \/ S59 \/ S60 \/ S61 \/ S62 \/ S63
    \/ S65 \/ S66 \/ S67 \/ S68

ScriptSpec == ScriptInit /\ [][ScriptNext]_vars

(* ------------------------------- properties ---------------------------- *)

\* the tolerance of the expected values: 1e-9
Close(a, b) == FLt(FAbs(FSub(a, b)), Literal(1, 9))

\* the float v and the int y are the same number (Python's v == y)
EqIntFloat(y, v) == v.e >= 0 /\ v.s = y.s /\ BShl(v.m, v.e) = y.m

DistinctX(p) == \A a, b \in 1 .. Len(p) : a # b => p[a].x # p[b].x

Valid(p) == Len(p) >= 1 /\ DistinctX(p)

SortedByX(p) == \A a, b \in 1 .. Len(p) : a < b => p[a].x < p[b].x

OnPoly(p, c) == \A k \in 1 .. Len(p) : p[k].y = PyInt(Eval(c, p[k].x))

\* the orderings of p
Orderings(p) == {[k \in 1 .. Len(p) |-> p[pi[k]]] : pi \in Permutations(1 .. Len(p))}

\* the ways to take n points of u, in the order of u
Choices(u, n) ==
    {[k \in 1 .. n |-> u[ix[k]]] :
       ix \in {jx \in [1 .. n -> 1 .. Len(u)] : \A a, b \in 1 .. n : a < b => jx[a] < jx[b]}}

\* a caller has the outcome of its first call
Called == pc = "idle" /\ Len(results) >= 1

\* C1: n = d + 1 points with distinct x of a polynomial of degree d (its
\* coefficients in Coefs) give the polynomial's constant coefficient, within
\* 1e-9.
C1_RoundTrip ==
    (Called /\ Valid(points) /\ Len(points) <= K) =>
      \A k \in 1 .. Len(results) :
        \A c \in [1 .. Len(points) -> Coefs] :
          ((c[Len(points)] # 0 \/ Len(points) = 1) /\ OnPoly(points, c))
          => /\ results[k].kind = "float"
             /\ Close(results[k].val, IntToFloat(PyInt(c[1])))

\* a returned call on three points of a proper quadratic whose float result
\* is not the constant coefficient itself: the tolerance is needed
C1_Witness ==
    /\ Called /\ Len(points) = 3 /\ Valid(points)
    /\ \E c \in [1 .. 3 -> Coefs] :
         /\ c[3] # 0 /\ OnPoly(points, c)
         /\ results[1].kind = "float"
         /\ ~EqIntFloat(PyInt(c[1]), results[1].val)

\* C2: a call with no points ends in an InvalidInputError, never in a number.
C2_EmptyRaises ==
    \A k \in 1 .. Len(results) :
      points = <<>> => results[k].kind = "InvalidInputError"

C4_PermutationInvariant ==
    (Called /\ Valid(points) /\ SortedByX(points)) =>
      LET rs == {results[1]}
                \cup {lagrange_constant_term(q).result : q \in Orderings(points) \ {points}}
      IN  \A a, b \in rs : a.kind = "float" /\ b.kind = "float" /\ Close(a.val, b.val)

\* three points passed ordered by x of which another ordering gives another float
C4_Witness ==
    /\ Called /\ Valid(points) /\ SortedByX(points) /\ Len(points) = 3
    /\ \E q \in Orderings(points) : lagrange_constant_term(q).result # results[1]

\* the point lists of which callers pass the first n points: the points of a
\* polynomial of degree at most n - 1 at every x of Xs, and the script's four
\* points of x^2 + 3
Supersets(n) ==
    {Sample(c, [k \in 1 .. MaxX + 1 |-> k - 1]) : c \in [1 .. n -> Coefs]}
    \cup (IF n = K THEN {Test1Points} ELSE {})

\* C5: of m > n points (distinct x) of one polynomial of degree at most n - 1,
\* every n give the same number: any two of the results pass the script's
\* comparison abs(a - b) < 1e-10.  The script's two selections are two such
\* choices.  Each superset is looked at once, when the caller passed its first
\* n points.
C5_SubsetIndependent ==
    (Called /\ Valid(points)) =>
      \A u \in Supersets(Len(points)) :
        (Len(u) > Len(points) /\ points = SubSeq(u, 1, Len(points))) =>
          LET rs == {results[1]}
                    \cup {lagrange_constant_term(q).result :
                            q \in Choices(u, Len(points)) \ {points}}
          IN  \A a, b \in rs : a.kind = "float" /\ b.kind = "float" /\ Match(a.val, b.val)

\* the caller passed the script's first selection, and the script's other
\* selection gives a number that matches
C5_Witness ==
    /\ Called /\ points = Test1Selected /\ results[1].kind = "float"
    /\ Test1Alt \in Choices(Test1Points, K)
    /\ Match(results[1].val, lagrange_constant_term(Test1Alt).result.val)

\* an int that is a float: at most 53 significant bits
Representable(y) == Canon(y.s, y.m, 0) = IntToFloat(y)

\* C7 as claimed: one point (x, y) gives y, whatever x is.
C7_SinglePointReturnsY ==
    (Called /\ Len(points) = 1) =>
      \A k \in 1 .. Len(results) :
        results[k].kind = "float" /\ EqIntFloat(points[1].y, results[k].val)

\* C7 as amended: one point (x, y) gives float(y), whatever x is (x = 0
\* too); that is y itself when y is an int that is a float.
C7_SinglePointReturnsFloatY ==
    (Called /\ Len(points) = 1) =>
      \A k \in 1 .. Len(results) :
        /\ results[k].kind = "float"
        /\ results[k].val = IntToFloat(points[1].y)
        /\ Representable(points[1].y) => EqIntFloat(points[1].y, results[k].val)

\* the call is over for the one point (0, y), y not 0
C7_Witness ==
    /\ Called /\ Len(points) = 1 /\ points[1].x = 0 /\ points[1].y # PyInt(0)
    /\ Representable(points[1].y)
    /\ results[1].kind = "float"

\* C9 as claimed: a valid point set with a point at x = 0 gives exactly that
\* point's y.
C9_ZeroPointReturnsY ==
    (Called /\ Valid(points)) =>
      \A k \in 1 .. Len(points) :
        points[k].x = 0 =>
          results[1].kind = "float" /\ EqIntFloat(points[k].y, results[1].val)

\* C9 as amended: a valid point set with a point at x = 0 gives exactly
\* float(y) of that point, whatever the other points are; that is y itself
\* when y is an int that is a float.
C9_ZeroPointReturnsFloatY ==
    (Called /\ Valid(points)) =>
      \A k \in 1 .. Len(points) :
        points[k].x = 0 =>
          /\ results[1].kind = "float"
          /\ results[1].val = IntToFloat(points[k].y)
          /\ Representable(points[k].y) => EqIntFloat(points[k].y, results[1].val)

\* the call is over for three points, the one at x = 0 passed last, the
\* others with y-values that are not 0
C9_Witness ==
    /\ Called /\ Valid(points) /\ Len(points) = 3
    /\ points[3].x = 0 /\ points[3].y # PyInt(0)
    /\ points[1].y # PyInt(0) /\ points[2].y # PyInt(0)
    /\ results[1].kind = "float"

\* a statement of the function has run
FunctionStep == frame.pc # "none" /\ frame'.pc # "none"

\* C8: the function is pure.  A statement of the function leaves the list
\* it was passed as it is (length, points, order) and writes nothing but the
\* frame; a call over leaves the list as it is; and every call a caller makes
\* with its list ends as the first did.
C8_Pure ==
    /\ [][points' = points]_vars
    /\ [][FunctionStep => UNCHANGED <<pc, ScriptVars, CallerVars>>]_vars
    /\ [](\A k \in 1 .. Len(results) : results[k] = results[1])

\* a caller has called twice with three points it did not pass ordered by x
C8_Witness ==
    /\ pc = "idle" /\ Len(results) = 2
    /\ Len(points) = 3 /\ Valid(points) /\ ~SortedByX(points)
    /\ results[2].kind = "float"

\* C6: for (1, 4), (2, 7), (3, 12) the function returns 3, and for
\* (1, 4), (2, 7), (6, 39) it returns 3 too, each within 1e-9: that is what
\* the script's two calls are passed and what they return.
C6_ScriptSecrets ==
    /\ secret1 # Unbound =>
         /\ test1_selected = <<Pt(1, 4), Pt(2, 7), Pt(3, 12)>>
         /\ Close(secret1, IntToFloat(PyInt(3)))
    /\ secret1_alt # Unbound =>
         /\ test1_alt = <<Pt(1, 4), Pt(2, 7), Pt(6, 39)>>
         /\ Close(secret1_alt, IntToFloat(PyInt(3)))
    /\ pc = "S38" => (secret1 # Unbound /\ secret1_alt # Unbound)

\* the script has both secrets
C6_Witness == pc = "S38" /\ secret1 # Unbound /\ secret1_alt # Unbound

Passed == <<"TEST CASE 1 VERIFICATION PASSED">>

SecretIs3 == <<"Secret = 3 (matches expected result)">>

====
